---- MODULE Spec2Model ----
(***************************************************************************)
(* SYS-Toolset: the script execution engine (ScriptExecutorThread and the  *)
(* MainWindow handlers that drive it) and the scheduling engine            *)
(* (ScheduleDialog, the JSON schedule store and WindowsTaskScheduler).     *)
(***************************************************************************)
EXTENDS Integers, Sequences, FiniteSets, TLC

(***************************************************************************)
(* Bounds of the model.                                                    *)
(***************************************************************************)
\* executions started by execute_script in one behaviour
MaxRuns == 2
\* chunks (lines) one child writes to stdout and stderr together
MaxChunks == 2
\* lines an OS pipe holds before the writer blocks
PipeCap == 1
\* the largest exit status a scheduled child returns
MaxExit == 2

(***************************************************************************)
(* State.                                                                  *)
(***************************************************************************)
VARIABLES
    \* ---- MainWindow (src/gui/main_window.py:216) ----
    os_name,            \* os.name of the host
    current_category,   \* MainWindow.current_category
    current_script,     \* MainWindow.current_script ("None" or a descriptor)
    exec_button,        \* exec_button.isEnabled()
    stop_button,        \* stop_button.isEnabled()
    executor_thread,    \* id of the thread MainWindow.executor_thread names, 0 = None
    sigq,               \* queued signal deliveries worker -> UI thread, FIFO
    refresh,            \* RefreshThread state and saved_category/saved_script_name
    \* ---- ScriptExecutorThread (src/gui/main_window.py:31) ----
    pc,                 \* position of run()
    thr,                \* the thread's fields: script_ext, run_as_admin, process, _stop_requested
    child,              \* the child process
    outPipe,            \* the child's stdout pipe (chunk ids, oldest first)
    errPipe,            \* the child's stderr pipe
    emitted,            \* signals this invocation of run() has emitted, in order
    hist,               \* history of the invocation: spawn count, stop observed, ...
    logfile,            \* the per-run log file and who holds its path
    \* ---- scheduling (ScheduleDialog, schedule store, WindowsTaskScheduler) ----
    dlg,                \* the modal ScheduleDialog opened by configure_schedule
    cfgFiles,           \* schedules/<safe_name>.json: file key -> [exists, text]
    wrappers,           \* schedules/wrappers/wrapper_<safe_name>.py: key -> [exists, text]
    tasks,              \* the OS scheduler's registrations: records [name, xml]
    tempXml,            \* names of the schedules/temp/<task_name>.xml files present
    wproc,              \* the process running a generated wrapper's main()
    last                \* the last store / scheduler operation and what it returned

execVars == <<os_name, current_category, current_script, exec_button, stop_button,
              executor_thread, sigq, refresh, pc, thr, child,
              outPipe, errPipe, emitted, hist, logfile>>

schedVars == <<dlg, cfgFiles, wrappers, tasks, tempXml, wproc, last>>

vars == <<execVars, schedVars>>

(***************************************************************************)
(* Helpers.                                                                *)
(***************************************************************************)
Range(s) == {s[i] : i \in 1..Len(s)}

\* One signal emission: kind is the signal, tag what the text says, chunks the
\* child's chunks the text carries.
Ev(kind, tag, chunks) == [kind |-> kind, tag |-> tag, chunks |-> chunks]

Count(s, kind) == Cardinality({i \in 1..Len(s) : s[i].kind = kind})

(***************************************************************************)
(* The script catalogue (external, read-only): descriptors with the path's *)
(* own extension ("" when the index stores the path without one) and the   *)
(* run_as_admin flag.                                                      *)
(***************************************************************************)
\* Script names are sequences of characters, so that the name transforms
\* (str.replace, str.strip) are computed and not assumed.
Catalog ==
    { [name |-> <<"a", " ", "b">>, ext |-> "",     admin |-> FALSE],
      [name |-> <<"a", "/", "b">>, ext |-> "",     admin |-> TRUE],
      [name |-> <<"c">>,           ext |-> ".bat", admin |-> FALSE] }

\* the scripts whose schedules the model edits
Scheduled == {d \in Catalog : d.name \in {<<"a", " ", "b">>, <<"a", "/", "b">>}}

\* current_script is None
NoScript == [name |-> <<>>, ext |-> "", admin |-> FALSE]

\* extensions a file on disk may carry
DiskExts == {".ps1", ".bat", ".py", ".sh", ".exe"}

\* execute_script: the extensions it accepts and searches, in its order
SearchExts == <<".ps1", ".bat", ".py", ".sh", ".exe">>

\* execute_script's path resolution.  exists is the set of extensions e for
\* which the candidate path ending in e exists on disk; the result is the
\* extension of the resolved script_path, "None" when nothing is found.
ResolveExt(ext_existing, exists) ==
    IF ext_existing \in Range(SearchExts)
    THEN IF ext_existing \in exists THEN ext_existing ELSE "None"
    ELSE LET hits == {i \in 1..Len(SearchExts) : SearchExts[i] \in exists}
         IN  IF hits = {} THEN "None"
             ELSE SearchExts[CHOOSE i \in hits : \A j \in hits : i <= j]

\* run(): the interpreter dispatch on the script path's suffix
Dispatch(ext) ==
    IF ext = ".ps1" THEN "powershell"
    ELSE IF ext = ".bat" \/ ext = ".cmd" THEN "direct"
    ELSE IF ext = ".py" THEN "python"
    ELSE "unsupported"

\* QThread.isRunning(): run() was started and has not returned
IsRunning == pc \notin {"none", "done", "raised"}

\* streams: the stream each chunk was written to, in the order the child produced them;
\* pending: the stream whose full pipe the child is blocked writing to
NoChild == [alive |-> FALSE, termSignalled |-> FALSE, killed |-> FALSE, produced |-> 0,
            streams |-> <<>>, pending |-> "None"]

\* Popen.terminate(): a termination request the child may honour or ignore
Terminate(c) == [c EXCEPT !.termSignalled = TRUE]

\* mutant of Kill: the kill is not delivered
KillNoop(c) == c

\* Popen.kill(): the child cannot ignore it
Kill(c) == [c EXCEPT !.alive = FALSE, !.killed = c.alive]

\* Popen.communicate() returns once the child has exited and its pipes are at EOF
CommunicateReturns(c) == ~c.alive

\* a signal emission of the running invocation: recorded, and queued to the UI thread
Emit(evs) ==
    /\ emitted' = emitted \o evs
    /\ sigq' = sigq \o [i \in 1..Len(evs) |-> [run |-> hist.run, ev |-> evs[i]]]

(***************************************************************************)
(* Strings of the scheduling engine, computed on character sequences.      *)
(***************************************************************************)
\* str.replace(old, new) for one-character old and new
Replace(str, old, new) == [i \in 1..Len(str) |-> IF str[i] = old THEN new ELSE str[i]]

\* the safe-name transform of get_schedule_filepath, _create_wrapper_script and
\* _delete_wrapper_script
SafeName(script_name) ==
    Replace(Replace(Replace(script_name, " ", "_"), "/", "_"), "\\", "_")

\* WindowsTaskScheduler.TASK_PREFIX
TASK_PREFIX == <<"SYS_Toolset_">>

\* the native task name create_task, delete_task and task_exists derive
TaskName(script_name) == TASK_PREFIX \o Replace(script_name, " ", "_")

\* get_schedule_filepath: the file name under schedules/
ConfigKey(script_name) == SafeName(script_name) \o <<".json">>

\* the wrapper's file name under schedules/wrappers/
WrapperKey(script_name) == <<"wrapper_">> \o SafeName(script_name) \o <<".py">>

RECURSIVE LStrip(_)
LStrip(str) == IF str # <<>> /\ Head(str) = " " THEN LStrip(Tail(str)) ELSE str

RECURSIVE RStrip(_)
RStrip(str) ==
    IF str # <<>> /\ str[Len(str)] = " " THEN RStrip(SubSeq(str, 1, Len(str) - 1)) ELSE str

\* str.strip()
Strip(str) == RStrip(LStrip(str))

\* str.split(sep): the pieces between the separators
RECURSIVE SplitAcc(_, _, _, _)
SplitAcc(str, sep, cur, acc) ==
    IF str = <<>> THEN Append(acc, cur)
    ELSE IF Head(str) = sep THEN SplitAcc(Tail(str), sep, <<>>, Append(acc, cur))
    ELSE SplitAcc(Tail(str), sep, Append(cur, Head(str)), acc)

Split(str, sep) == SplitAcc(str, sep, <<>>, <<>>)

(***************************************************************************)
(* JSON text as a token sequence: json.dump writes it, json.load parses it.*)
(***************************************************************************)
Tok(t, v) == [t |-> t, v |-> v]

Punct(t) == <<Tok(t, "")>>

\* parts joined by a separator token
RECURSIVE JoinToks(_, _)
JoinToks(parts, sep) ==
    IF parts = <<>> THEN <<>>
    ELSE IF Len(parts) = 1 THEN parts[1]
    ELSE parts[1] \o Punct(sep) \o JoinToks(Tail(parts), sep)

DumpScalar(t, v) == <<Tok(t, v)>>

DumpList(items) == Punct("[") \o JoinToks(items, ",") \o Punct("]")

\* members: <<key, value tokens>> pairs in the dict's insertion order
DumpDict(members) ==
    Punct("{")
    \o JoinToks([i \in 1..Len(members) |->
                    DumpScalar("str", members[i][1]) \o Punct(":") \o members[i][2]], ",")
    \o Punct("}")

\* the data dict of a trigger, keys in the order get_current_form_trigger builds them
DumpTriggerData(trig) ==
    CASE trig.type = "once" ->
           DumpDict(<< <<"datetime", DumpScalar("str", trig.data.datetime)>> >>)
      [] trig.type = "daily" ->
           DumpDict(<< <<"time", DumpScalar("str", trig.data.time)>>,
                       <<"interval", DumpScalar("int", trig.data.interval)>> >>)
      [] trig.type = "weekly" ->
           DumpDict(<< <<"time", DumpScalar("str", trig.data.time)>>,
                       <<"days", DumpList([i \in 1..Len(trig.data.days) |->
                                             DumpScalar("str", trig.data.days[i])])>> >>)

DumpTrigger(trig) ==
    DumpDict(<< <<"type", DumpScalar("str", trig.type)>>, <<"data", DumpTriggerData(trig)>> >>)

\* json.dump of the dict ScheduleDialog.accept builds
JsonDump(config) ==
    DumpDict(<< <<"enabled", DumpScalar("bool", config.enabled)>>,
                <<"task_name", DumpScalar("str", config.task_name)>>,
                <<"triggers", DumpList([i \in 1..Len(config.triggers) |->
                                          DumpTrigger(config.triggers[i])])>> >>)

ParseFail == [ok |-> FALSE, val |-> <<>>, next |-> 0]

\* a dict from its <<key, value>> pairs; a repeated key keeps its last value
MkDict(pairs) ==
    [k \in {pairs[j][1] : j \in 1..Len(pairs)} |->
        pairs[CHOOSE j \in 1..Len(pairs) :
                 /\ pairs[j][1] = k
                 /\ \A m \in 1..Len(pairs) : pairs[m][1] = k => m <= j][2]]

RECURSIVE ParseValue(_, _)
RECURSIVE ParseElems(_, _, _)
RECURSIVE ParseMembers(_, _, _)

TokAt(toks, i) == IF i \in 1..Len(toks) THEN toks[i].t ELSE "eof"

ParseValue(toks, i) ==
    CASE TokAt(toks, i) \in {"str", "int", "bool"} ->
           [ok |-> TRUE, val |-> toks[i].v, next |-> i + 1]
      [] TokAt(toks, i) = "[" ->
           IF TokAt(toks, i + 1) = "]"
           THEN [ok |-> TRUE, val |-> <<>>, next |-> i + 2]
           ELSE ParseElems(toks, i + 1, <<>>)
      [] TokAt(toks, i) = "{" ->
           IF TokAt(toks, i + 1) = "}"
           THEN [ok |-> TRUE, val |-> MkDict(<<>>), next |-> i + 2]
           ELSE ParseMembers(toks, i + 1, <<>>)
      [] OTHER -> ParseFail

ParseElems(toks, i, acc) ==
    LET r == ParseValue(toks, i) IN
    IF ~r.ok THEN ParseFail
    ELSE IF TokAt(toks, r.next) = "," THEN ParseElems(toks, r.next + 1, Append(acc, r.val))
    ELSE IF TokAt(toks, r.next) = "]"
         THEN [ok |-> TRUE, val |-> Append(acc, r.val), next |-> r.next + 1]
    ELSE ParseFail

ParseMembers(toks, i, acc) ==
    IF TokAt(toks, i) # "str" \/ TokAt(toks, i + 1) # ":" THEN ParseFail
    ELSE LET r == ParseValue(toks, i + 2) IN
         IF ~r.ok THEN ParseFail
         ELSE IF TokAt(toks, r.next) = ","
              THEN ParseMembers(toks, r.next + 1, Append(acc, <<toks[i].v, r.val>>))
         ELSE IF TokAt(toks, r.next) = "}"
              THEN [ok |-> TRUE, val |-> MkDict(Append(acc, <<toks[i].v, r.val>>)),
                    next |-> r.next + 1]
         ELSE ParseFail

\* json.load: the whole text is one value; anything else raises
JsonLoad(text) ==
    LET r == ParseValue(text, 1) IN
    IF r.ok /\ r.next = Len(text) + 1 THEN r ELSE ParseFail

(***************************************************************************)
(* The schedule store: one JSON file per safe name.                        *)
(***************************************************************************)
\* triggers the dialog's list may hold
MaxTriggers == 2

NoFile == [exists |-> FALSE, text |-> <<>>]

None == [some |-> FALSE, val |-> <<>>]

Some(v) == [some |-> TRUE, val |-> v]

ConfigKeys == {ConfigKey(d.name) : d \in Catalog}

WrapperKeys == {WrapperKey(d.name) : d \in Catalog}

\* mutant of WriteFile: the file is opened for appending
WriteFileAppend(old, text) == [exists |-> TRUE, text |-> old.text \o text]

\* open(filepath, 'w') followed by the write: the old content is gone
WriteFile(old, text) == [exists |-> TRUE, text |-> text]

\* save_schedule_config: the files after the save
save_schedule_config(files, script_name, config) ==
    [files EXCEPT ![ConfigKey(script_name)] = WriteFile(@, JsonDump(config))]

\* load_schedule_config: the parsed dict, None when the file is missing or unreadable
load_schedule_config(files, script_name) ==
    LET f == files[ConfigKey(script_name)] IN
    IF f.exists /\ JsonLoad(f.text).ok THEN Some(JsonLoad(f.text).val) ELSE None

\* delete_schedule_config: unlink when the file exists
delete_schedule_config(files, script_name) ==
    [files EXCEPT ![ConfigKey(script_name)] = NoFile]

(***************************************************************************)
(* ScheduleDialog.                                                         *)
(***************************************************************************)
\* the keys of weekday_checkboxes, in insertion order
WeekdaysFull == <<"Lunedì", "Martedì", "Mercoledì", "Giovedì", "Venerdì", "Sabato", "Domenica">>

\* QDateTime.toString("dd/MM/yyyy HH:mm")
FormatDateTime(dt) == <<dt.d, "/", dt.mo, "/", dt.y, " ", dt.h, ":", dt.mi>>

\* QTime.toString("HH:mm")
FormatTime(t) == <<t.h, ":", t.mi>>

\* What the user may have put in the form when "add trigger" is clicked.
FormDateTimes == {[d |-> "01", mo |-> "06", y |-> "2025", h |-> "02", mi |-> "00"]}

FormTimes == {[h |-> "03", mi |-> "30"]}

FormIntervals == {2}

FormDaySets == {{}, {"Lunedì", "Mercoledì"}}

Forms ==
    [radio : {"once"}, datetime : FormDateTimes, time : FormTimes,
     interval : FormIntervals, checked : {{}}]
    \cup [radio : {"daily"}, datetime : FormDateTimes, time : FormTimes,
          interval : FormIntervals, checked : {{}}]
    \cup [radio : {"weekly"}, datetime : FormDateTimes, time : FormTimes,
          interval : FormIntervals, checked : FormDaySets]

\* [day for day, cb in weekday_checkboxes.items() if cb.isChecked()]
SelectedDays(checked) == SelectSeq(WeekdaysFull, LAMBDA day : day \in checked)

\* mutant of get_current_form_trigger: the weekly branch without its validation
FormTriggerUnvalidated(form) ==
    IF form.radio = "once"
    THEN Some([type |-> "once", data |-> [datetime |-> FormatDateTime(form.datetime)]])
    ELSE IF form.radio = "daily"
    THEN Some([type |-> "daily",
               data |-> [time |-> FormatTime(form.time), interval |-> form.interval]])
    ELSE Some([type |-> "weekly",
               data |-> [time |-> FormatTime(form.time), days |-> SelectedDays(form.checked)]])

\* get_current_form_trigger: the trigger of the form, None when validation fails
get_current_form_trigger(form) ==
    IF form.radio = "once"
    THEN Some([type |-> "once", data |-> [datetime |-> FormatDateTime(form.datetime)]])
    ELSE IF form.radio = "daily"
    THEN Some([type |-> "daily",
               data |-> [time |-> FormatTime(form.time), interval |-> form.interval]])
    ELSE IF form.radio = "weekly"
    THEN IF SelectedDays(form.checked) = <<>>
         THEN None
         ELSE Some([type |-> "weekly",
                    data |-> [time |-> FormatTime(form.time),
                              days |-> SelectedDays(form.checked)]])
    ELSE None

\* what the user may type into task_name_input
TypedNames == {<<" ">>, <<"T">>}

NoDialog == [open |-> FALSE, script_name |-> <<>>, has_existing |-> FALSE, triggers |-> <<>>,
             editing_trigger_index |-> 0, row |-> 0, task_name_input |-> <<>>]

NoOp == [op |-> "none"]

\* no exit status (yet)
NoStatus == -1

\* no wrapper process has been started
NoWrapperRun == [pc |-> "idle", suffix |-> "None", cmd |-> "None", result |-> NoStatus,
                 exc |-> "None", status |-> NoStatus]

\* the scheduling engine at rest on a fresh installation
SchedIdle ==
    /\ wproc = NoWrapperRun
    /\ dlg = NoDialog
    /\ cfgFiles = [k \in ConfigKeys |-> NoFile]
    /\ wrappers = [k \in WrapperKeys |-> NoFile]
    /\ tasks = {}
    /\ tempXml = {}
    /\ last = NoOp

(***************************************************************************)
(* Initial state: MainWindow.__init__, no thread created yet.              *)
(***************************************************************************)
NoThread == [script_ext |-> "None", run_as_admin |-> FALSE,
             process |-> "None", stop_requested |-> FALSE, e |-> "None"]

\* the per-run log file: whether the thread (log_file_path) and MainWindow
\* (current_script_log) hold its path, whether appending to it succeeds, the
\* child's chunks it holds, and how many failed appends have been reported
NoLog == [log_file_path |-> FALSE, current_script_log |-> FALSE, writable |-> TRUE,
          lines |-> <<>>, reports |-> 0]

\* open(path, 'a') and write() inside try / except Exception: the text is appended,
\* or the failure is reported and the call returns; chunks: the child's chunks in it
AppendToLog(l, chunks) ==
    IF l.writable THEN [l EXCEPT !.lines = @ \o chunks] ELSE [l EXCEPT !.reports = @ + 1]

\* lines 153-161, called where run() tests self.log_file_path
_write_to_log(l, chunks) == IF l.log_file_path THEN AppendToLog(l, chunks) ELSE l

\* lines 1139-1150
_write_to_current_log(l, chunks) == IF l.current_script_log THEN AppendToLog(l, chunks) ELSE l

\* lines 998-1030 of execute_script: the log file of the execution is created
\* (script_log_file is None when that fails) and the initial message written to it
LogCreated(l, log_created, writable) ==
    _write_to_current_log([l EXCEPT !.current_script_log = log_created,
                                    !.writable = writable,
                                    !.lines = IF log_created THEN <<>> ELSE @,
                                    !.reports = 0], <<>>)

\* lines 1087-1098: the command line is written and the thread gets the path
LogAtStart(l, log_created, writable) ==
    [_write_to_current_log(LogCreated(l, log_created, writable), <<>>)
        EXCEPT !.log_file_path = log_created]

NoHist == [run |-> 0, spawned |-> 0, stopObserved |-> FALSE, waitTimedOut |-> FALSE,
           overlap |-> FALSE, cancelledRuns |-> {}, reported |-> {}, finHandled |-> {}]

ExecInit ==
    /\ os_name \in {"nt", "posix"}
    /\ current_category = "None"
    /\ current_script = NoScript
    /\ exec_button = FALSE
    /\ stop_button = FALSE
    /\ executor_thread = 0
    /\ sigq = <<>>
    /\ refresh = [pending |-> FALSE, saved_category |-> "None", saved_script_name |-> <<>>]
    /\ pc = "none"
    /\ thr = NoThread
    /\ child = NoChild
    /\ outPipe = <<>>
    /\ errPipe = <<>>
    /\ emitted = <<>>
    /\ hist = NoHist
    /\ logfile = NoLog
    /\ SchedIdle

threadVars == <<pc, thr, child, outPipe, errPipe, emitted>>

(***************************************************************************)
(* MainWindow handlers (UI thread).                                        *)
(***************************************************************************)
\* update_scripts_list: the part that changes the state modelled here
UpdateScriptsList ==
    /\ exec_button' = FALSE
    /\ current_script' = NoScript

on_category_selected ==
    /\ ~dlg.open
    /\ current_category' = "cat"
    /\ UpdateScriptsList
    /\ UNCHANGED <<schedVars, logfile, os_name, stop_button, executor_thread, sigq, refresh, threadVars, hist>>

on_script_selected(s) ==
    /\ ~dlg.open
    /\ current_category # "None"
    /\ current_script' = s
    /\ exec_button' = TRUE
    /\ UNCHANGED <<schedVars, logfile, os_name, current_category, stop_button, executor_thread, sigq,
                   refresh, threadVars, hist>>

\* execute_script with no script selected: the early return
execute_script_none ==
    /\ ~dlg.open
    /\ exec_button
    /\ current_script = NoScript
    /\ UNCHANGED vars

\* execute_script when the path resolves to no existing file
execute_script_notfound(exists, log_created) ==
    /\ ~dlg.open
    /\ exec_button
    /\ current_script # NoScript
    /\ ResolveExt(current_script.ext, exists) = "None"
    /\ exec_button' = TRUE
    /\ logfile' = LogCreated(logfile, log_created, logfile.writable)
    /\ UNCHANGED <<schedVars, os_name, current_category, current_script, stop_button,
                   executor_thread, sigq, refresh, threadVars, hist>>

\* execute_script that creates and starts a ScriptExecutorThread
execute_script(exists, log_created) ==
    /\ ~dlg.open
    /\ exec_button
    /\ current_script # NoScript
    /\ hist.run < MaxRuns
    /\ ResolveExt(current_script.ext, exists) # "None"
    /\ executor_thread' = hist.run + 1
    /\ thr' = [script_ext |-> ResolveExt(current_script.ext, exists),
               run_as_admin |-> current_script.admin,
               process |-> "None", stop_requested |-> FALSE, e |-> "None"]
    /\ pc' = "start"
    /\ child' = NoChild
    /\ outPipe' = <<>>
    /\ errPipe' = <<>>
    /\ emitted' = <<>>
    /\ hist' = [hist EXCEPT !.run = hist.run + 1, !.spawned = 0,
                            !.stopObserved = FALSE, !.waitTimedOut = FALSE,
                            !.overlap = hist.overlap
                                \/ (executor_thread # 0 /\ hist.run \notin hist.finHandled)]
    /\ stop_button' = TRUE
    /\ exec_button' = FALSE
    /\ logfile' = LogAtStart(logfile, log_created, logfile.writable)
    /\ UNCHANGED <<schedVars, os_name, current_category, current_script, sigq, refresh>>

stop_execution ==
    /\ ~dlg.open
    /\ stop_button
    /\ IF executor_thread # 0 /\ IsRunning
       THEN /\ thr' = [thr EXCEPT !.stop_requested = TRUE]
            /\ stop_button' = FALSE
       ELSE UNCHANGED <<thr, stop_button>>
    /\ UNCHANGED <<schedVars, logfile, os_name, current_category, current_script, exec_button, executor_thread,
                   sigq, refresh, pc, child, outPipe, errPipe, emitted, hist>>

\* what on_execution_finished tells the user
CompletionMsg == "[OK] Esecuzione completata"

on_execution_finished(run) ==
    /\ logfile' = [_write_to_current_log(_write_to_current_log(logfile, <<>>), <<>>)
                      EXCEPT !.current_script_log = FALSE]
    /\ exec_button' = TRUE
    /\ stop_button' = FALSE
    /\ hist' = [hist EXCEPT !.finHandled = @ \cup {run},
                            !.reported = @ \cup {<<run, CompletionMsg>>}]

\* the UI event loop delivers the oldest queued signal to its slot
Deliver ==
    /\ sigq # <<>>
    /\ sigq' = Tail(sigq)
    /\ LET m == Head(sigq) IN
         CASE m.ev.kind = "output" ->         \* append_output
                /\ logfile' = _write_to_current_log(logfile, m.ev.chunks)
                /\ UNCHANGED <<exec_button, stop_button, hist>>
           [] m.ev.kind = "error" ->          \* append_error
                /\ logfile' = _write_to_current_log(logfile, m.ev.chunks)
                /\ UNCHANGED <<exec_button, stop_button, hist>>
           [] m.ev.kind = "finished" -> on_execution_finished(m.run)
    /\ UNCHANGED <<schedVars, os_name, current_category, current_script, executor_thread, refresh,
                   threadVars>>

on_refresh_clicked ==
    /\ ~dlg.open
    /\ ~refresh.pending
    /\ refresh' = [pending |-> TRUE, saved_category |-> current_category,
                   saved_script_name |-> current_script.name]
    /\ UNCHANGED <<schedVars, logfile, os_name, current_category, current_script, exec_button, stop_button,
                   executor_thread, sigq, threadVars, hist>>

\* on_refresh_completed; cat_found / script_found: whether the saved category and
\* the saved script are still in the reloaded repository
on_refresh_completed(cat_found, script_found) ==
    /\ refresh.pending
    /\ refresh' = [refresh EXCEPT !.pending = FALSE]
    /\ IF refresh.saved_category # "None"
       THEN IF cat_found
            THEN \* on_category_selected(), then on_script_selected() when the script is found
                 /\ current_category' = refresh.saved_category
                 /\ IF refresh.saved_script_name # <<>> /\ script_found
                    THEN /\ current_script' =
                               CHOOSE d \in Catalog : d.name = refresh.saved_script_name
                         /\ exec_button' = TRUE
                    ELSE /\ current_script' = NoScript
                         /\ exec_button' = FALSE
            ELSE UNCHANGED <<current_category, current_script, exec_button>>
       ELSE /\ exec_button' = FALSE
            /\ current_script' = NoScript
            /\ current_category' = "None"
    /\ UNCHANGED <<schedVars, logfile, os_name, stop_button, executor_thread, sigq, threadVars, hist>>

on_refresh_error ==
    /\ refresh.pending
    /\ refresh' = [refresh EXCEPT !.pending = FALSE]
    /\ UNCHANGED <<schedVars, logfile, os_name, current_category, current_script, exec_button, stop_button,
                   executor_thread, sigq, threadVars, hist>>

(***************************************************************************)
(* ScriptExecutorThread.run (worker thread), one action per step.          *)
(***************************************************************************)
uiVars == <<os_name, current_category, current_script, exec_button, stop_button,
            executor_thread, refresh>>

Elevated == thr.run_as_admin /\ os_name = "nt"

\* lines 49-64 / 87-97: no interpreter for the extension; emits and returns
RunUnsupported ==
    /\ pc = "start"
    /\ Dispatch(thr.script_ext) = "unsupported"
    /\ Emit(<<Ev("error", "Tipo di script non supportato", <<>>),
              Ev("finished", "", <<>>)>>)
    /\ pc' = "finally"
    /\ UNCHANGED <<schedVars, logfile, uiVars, thr, child, outPipe, errPipe, hist>>

\* lines 66-74: ShellExecuteW "runas"; result <= 32 is a failure
RunElevated(launched) ==
    /\ pc = "start"
    /\ Elevated
    /\ Dispatch(thr.script_ext) # "unsupported"
    /\ Emit((IF launched
             THEN <<Ev("output", "[INFO] avviato con privilegi amministrativi", <<>>),
                    Ev("output", "[AVVISO] output real-time non disponibile", <<>>)>>
             ELSE <<Ev("error", "Impossibile eseguire come amministratore", <<>>)>>)
            \o <<Ev("finished", "", <<>>)>>)
    /\ pc' = "finally"
    /\ UNCHANGED <<schedVars, logfile, uiVars, thr, child, outPipe, errPipe, hist>>

\* lines 100-108: subprocess.Popen succeeds
RunSpawn ==
    /\ pc = "start"
    /\ ~Elevated
    /\ Dispatch(thr.script_ext) # "unsupported"
    /\ thr' = [thr EXCEPT !.process = "Popen"]
    /\ child' = [NoChild EXCEPT !.alive = TRUE]
    /\ hist' = [hist EXCEPT !.spawned = @ + 1]
    /\ pc' = "loop"
    /\ UNCHANGED <<schedVars, logfile, uiVars, sigq, outPipe, errPipe, emitted>>

\* what subprocess.Popen raises: the interpreter is missing, permission is denied
SpawnErrors == {"FileNotFoundError", "PermissionError"}

\* what stdout.readline() raises with text=True: a line that is not valid in the
\* locale's encoding
ReadErrors == {"UnicodeDecodeError"}

\* mutant of ExceptHandles: the clause is except OSError
ExceptHandlesOSError(e) == e \in {"FileNotFoundError", "PermissionError"}

\* line 140, except Exception: the classes it catches
ExceptHandles(e) == e \in {"FileNotFoundError", "PermissionError", "UnicodeDecodeError"}

\* where control goes when e is raised inside the try block
Raise(e) == IF ExceptHandles(e) THEN "except" ELSE "unhandled"

\* lines 100-108: subprocess.Popen raises (interpreter missing, permission denied)
RunSpawnRaises ==
    /\ pc = "start"
    /\ ~Elevated
    /\ Dispatch(thr.script_ext) # "unsupported"
    /\ \E e \in SpawnErrors :
          /\ thr' = [thr EXCEPT !.e = e]
          /\ pc' = Raise(e)
    /\ UNCHANGED <<schedVars, logfile, uiVars, sigq, child, outPipe, errPipe, emitted, hist>>

\* lines 111-113: top of the loop, the stop flag is polled; terminate() on stop
RunLoop ==
    /\ pc = "loop"
    /\ IF thr.stop_requested
       THEN /\ child' = Terminate(child)
            /\ hist' = [hist EXCEPT !.stopObserved = TRUE,
                                    !.cancelledRuns = @ \cup {hist.run}]
            /\ pc' = "wait"
       ELSE /\ pc' = "readline"
            /\ UNCHANGED <<child, hist>>
    /\ UNCHANGED <<schedVars, logfile, uiVars, sigq, thr, outPipe, errPipe, emitted>>

\* lines 114-117: wait(timeout=2) returns when the child has exited, else TimeoutExpired
RunWait ==
    /\ pc = "wait"
    /\ IF child.alive
       THEN /\ pc' = "kill"
            /\ hist' = [hist EXCEPT !.waitTimedOut = TRUE]
       ELSE /\ pc' = "notice"
            /\ UNCHANGED hist
    /\ UNCHANGED <<schedVars, logfile, uiVars, sigq, thr, child, outPipe, errPipe, emitted>>

\* line 117: kill() after the grace period
RunKill ==
    /\ pc = "kill"
    /\ child' = Kill(child)
    /\ pc' = "notice"
    /\ UNCHANGED <<schedVars, logfile, uiVars, sigq, thr, outPipe, errPipe, emitted, hist>>

\* lines 118-119: the interruption notice, then break
RunNotice ==
    /\ pc = "notice"
    /\ Emit(<<Ev("error", "[INTERRUZIONE]", <<>>)>>)
    /\ pc' = "communicate"
    /\ UNCHANGED <<schedVars, logfile, uiVars, thr, child, outPipe, errPipe, hist>>

\* lines 121-127: stdout.readline() blocks until a line is there or stdout is at EOF;
\* the line is decoded (text=True), which raises when its bytes are not decodable
RunReadline(decodable) ==
    /\ pc = "readline"
    /\ IF outPipe # <<>>
       THEN IF decodable
            THEN /\ Emit(<<Ev("output", "child", <<Head(outPipe)>>)>>)
                 /\ logfile' = _write_to_log(logfile, <<Head(outPipe)>>)
                 /\ outPipe' = Tail(outPipe)
                 /\ pc' = "loop"
                 /\ UNCHANGED thr
            ELSE /\ \E e \in ReadErrors :
                       /\ thr' = [thr EXCEPT !.e = e]
                       /\ pc' = Raise(e)
                 /\ UNCHANGED <<outPipe, emitted, sigq, logfile>>
       ELSE /\ ~child.alive       \* EOF: readline returns '' and poll() is not None
            /\ pc' = "communicate"
            /\ UNCHANGED <<outPipe, emitted, sigq, thr, logfile>>
    /\ UNCHANGED <<schedVars, uiVars, child, errPipe, hist>>

\* lines 130-138: communicate() and the emission of what was left in the pipes
RunCommunicate ==
    /\ pc = "communicate"
    /\ CommunicateReturns(child)
    /\ Emit((IF outPipe # <<>> THEN <<Ev("output", "child", outPipe)>> ELSE <<>>)
            \o (IF errPipe # <<>> THEN <<Ev("error", "child", errPipe)>> ELSE <<>>))
    /\ logfile' = LET afterOut == IF outPipe # <<>> THEN _write_to_log(logfile, outPipe)
                                                     ELSE logfile
                  IN IF errPipe # <<>> THEN _write_to_log(afterOut, errPipe) ELSE afterOut
    /\ outPipe' = <<>>
    /\ errPipe' = <<>>
    /\ pc' = "finally"
    /\ UNCHANGED <<schedVars, uiVars, thr, child, hist>>

\* lines 140-144: the exception handler
RunExcept ==
    /\ pc = "except"
    /\ Emit(<<Ev("error", "Errore nell'esecuzione dello script", <<>>)>>)
    /\ logfile' = _write_to_log(logfile, <<>>)
    /\ pc' = "finally"
    /\ UNCHANGED <<schedVars, uiVars, thr, child, outPipe, errPipe, hist>>

\* lines 145-147: the finally clause, run on every way out of the try block; an
\* exception no clause handled propagates out of run() after it
RunFinally ==
    /\ pc \in {"finally", "unhandled"}
    /\ thr' = [thr EXCEPT !.process = "None"]
    /\ Emit(<<Ev("finished", "", <<>>)>>)
    /\ pc' = IF pc = "unhandled" THEN "raised" ELSE "done"
    /\ UNCHANGED <<schedVars, logfile, uiVars, child, outPipe, errPipe, hist>>

(***************************************************************************)
(* The child process.                                                      *)
(***************************************************************************)
\* a pipe accepts a write while it has room; communicate() keeps draining both
PipeAccepts(pipe) == Len(pipe) < PipeCap \/ pc = "communicate"

ChildWriteOut ==
    /\ child.alive
    /\ child.produced < MaxChunks
    /\ child.pending \in {"None", "stdout"}
    /\ PipeAccepts(outPipe)
    /\ outPipe' = Append(outPipe, child.produced + 1)
    /\ child' = [child EXCEPT !.produced = @ + 1, !.streams = Append(@, "stdout"),
                              !.pending = "None"]
    /\ UNCHANGED <<schedVars, logfile, uiVars, sigq, pc, thr, errPipe, emitted, hist>>

ChildWriteErr ==
    /\ child.alive
    /\ child.produced < MaxChunks
    /\ child.pending \in {"None", "stderr"}
    /\ PipeAccepts(errPipe)
    /\ errPipe' = Append(errPipe, child.produced + 1)
    /\ child' = [child EXCEPT !.produced = @ + 1, !.streams = Append(@, "stderr"),
                              !.pending = "None"]
    /\ UNCHANGED <<schedVars, logfile, uiVars, sigq, pc, thr, outPipe, emitted, hist>>

\* the child writes to a pipe that is full (stdout=PIPE, stderr=PIPE: nobody but
\* run() reads them): the write blocks until the pipe has room
ChildBlocks ==
    /\ child.alive
    /\ child.produced < MaxChunks
    /\ child.pending = "None"
    /\ \E stream \in {"stdout", "stderr"} :
          /\ ~PipeAccepts(IF stream = "stdout" THEN outPipe ELSE errPipe)
          /\ child' = [child EXCEPT !.pending = stream]
    /\ UNCHANGED <<schedVars, logfile, uiVars, sigq, pc, thr, outPipe, errPipe, emitted, hist>>

\* the child exits, on its own (not while it is blocked in a write) or because it
\* honours terminate()
ChildExit ==
    /\ child.alive
    /\ child.pending = "None" \/ child.termSignalled
    /\ child' = [child EXCEPT !.alive = FALSE, !.pending = "None"]
    /\ UNCHANGED <<schedVars, logfile, uiVars, sigq, pc, thr, outPipe, errPipe, emitted, hist>>

\* the environment: from now on appending to the log file fails (the disk fills
\* up, the file is locked or its directory is removed)
LogBreaks ==
    /\ logfile.log_file_path
    /\ logfile.writable
    /\ logfile' = [logfile EXCEPT !.writable = FALSE]
    /\ UNCHANGED <<schedVars, uiVars, sigq, pc, thr, child, outPipe, errPipe, emitted, hist>>

(***************************************************************************)
(* One invocation of run(), from the state execute_script leaves behind:   *)
(* the thread is started on a resolved script, Stop is enabled.  The       *)
(* caller may request a stop at any time and the UI thread delivers the    *)
(* queued signals.                                                         *)
(***************************************************************************)
RunInit ==
    /\ os_name \in {"nt", "posix"}
    /\ current_category = "cat"
    /\ current_script \in Catalog
    /\ exec_button = FALSE
    /\ stop_button = TRUE
    /\ executor_thread = 1
    /\ sigq = <<>>
    /\ refresh = [pending |-> FALSE, saved_category |-> "None", saved_script_name |-> <<>>]
    /\ pc = "start"
    /\ thr \in {[script_ext |-> ResolveExt(current_script.ext, exists),
                 run_as_admin |-> current_script.admin,
                 process |-> "None", stop_requested |-> FALSE, e |-> "None"] :
                    exists \in {e \in SUBSET DiskExts :
                                   ResolveExt(current_script.ext, e) # "None"}}
    /\ child = NoChild
    /\ outPipe = <<>>
    /\ errPipe = <<>>
    /\ emitted = <<>>
    /\ hist = [NoHist EXCEPT !.run = 1]
    /\ logfile \in {LogAtStart(NoLog, log_created, TRUE) : log_created \in BOOLEAN}
    /\ SchedIdle

RunStep ==
    \/ RunUnsupported
    \/ \E launched \in BOOLEAN : RunElevated(launched)
    \/ RunSpawn
    \/ RunSpawnRaises
    \/ RunLoop
    \/ RunWait
    \/ RunKill
    \/ RunNotice
    \/ \E decodable \in BOOLEAN : RunReadline(decodable)
    \/ RunCommunicate
    \/ RunExcept
    \/ RunFinally

RunNext ==
    \/ stop_execution
    \/ Deliver
    \/ RunStep
    \/ ChildWriteOut
    \/ ChildWriteErr
    \/ ChildBlocks
    \/ ChildExit
    \/ LogBreaks

RunSpec == RunInit /\ [][RunNext]_vars

\* The worker thread is scheduled and the UI event loop runs; the child owes nothing.
FairRunSpec == RunSpec /\ WF_vars(RunStep) /\ WF_vars(Deliver)

\* what the child does next whenever it can: a write that has room, or its exit
ChildStep == ChildWriteOut \/ ChildWriteErr \/ ChildExit

\* The same, with a child that goes on: it writes its finitely many chunks and exits,
\* waiting only where a write blocks.
FairChildSpec == FairRunSpec /\ WF_vars(ChildStep)

(***************************************************************************)
(* MainWindow driving the thread: every handler, with a child that writes  *)
(* nothing (no handler modelled here reads what the output signals carry)  *)
(* and a logs directory in which the log file of an execution is created.  *)
(***************************************************************************)
UiNext ==
    \/ on_category_selected
    \/ \E s \in Catalog : on_script_selected(s)
    \/ execute_script_none
    \/ \E exists \in SUBSET DiskExts : execute_script_notfound(exists, TRUE)
    \/ \E exists \in SUBSET DiskExts : execute_script(exists, TRUE)
    \/ stop_execution
    \/ Deliver
    \/ on_refresh_clicked
    \/ \E cat_found, script_found \in BOOLEAN : on_refresh_completed(cat_found, script_found)
    \/ on_refresh_error
    \/ RunStep
    \/ ChildExit

UiSpec == ExecInit /\ [][UiNext]_vars

(***************************************************************************)
(* configure_schedule and the modal ScheduleDialog it runs.                *)
(***************************************************************************)
\* dict.get(key, default)
Get(d, k, default) == IF k \in DOMAIN d THEN d[k] ELSE default

\* list.pop(i), 1-based
RemoveAt(s, i) == SubSeq(s, 1, i - 1) \o SubSeq(s, i + 1, Len(s))

\* ScheduleDialog.__init__ and the fields initUI sets
ScheduleDialog(script_name, existing_config) ==
    LET default_name == <<"SYS_Toolset_">> \o Replace(script_name, " ", "_") IN
    [open |-> TRUE,
     script_name |-> script_name,
     has_existing |-> existing_config.some,
     triggers |-> IF existing_config.some
                  THEN Get(existing_config.val, "triggers", <<>>)
                  ELSE <<>>,
     editing_trigger_index |-> 0,
     row |-> 0,
     task_name_input |-> IF existing_config.some
                         THEN Get(existing_config.val, "task_name", default_name)
                         ELSE default_name]

\* configure_schedule up to dialog.exec()
configure_schedule ==
    /\ ~dlg.open
    /\ current_script # NoScript
    /\ dlg' = ScheduleDialog(current_script.name,
                             load_schedule_config(cfgFiles, current_script.name))
    /\ last' = NoOp
    /\ UNCHANGED <<execVars, wproc, cfgFiles, wrappers, tasks, tempXml>>

\* configure_schedule after dialog.exec() returned Accepted
configure_schedule_accepted(script_name, schedule_config) ==
    /\ dlg' = NoDialog
    /\ IF Get(schedule_config, "delete_all", FALSE)
       THEN /\ cfgFiles' = delete_schedule_config(cfgFiles, script_name)
            /\ last' = [op |-> "delete", name |-> script_name]
       ELSE IF Get(schedule_config, "enabled", FALSE)
       THEN /\ cfgFiles' = save_schedule_config(cfgFiles, script_name, schedule_config)
            /\ last' = [op |-> "save", name |-> script_name, cfg |-> schedule_config,
                        overwrote |-> /\ cfgFiles[ConfigKey(script_name)].exists
                                      /\ cfgFiles[ConfigKey(script_name)].text
                                            # JsonDump(schedule_config)]
       ELSE /\ last' = NoOp
            /\ UNCHANGED cfgFiles

\* a row of triggers_list is clicked
on_trigger_selected(i) ==
    /\ dlg.open
    /\ i \in 1..Len(dlg.triggers)
    /\ dlg' = [dlg EXCEPT !.row = i, !.editing_trigger_index = i]
    /\ last' = NoOp
    /\ UNCHANGED <<execVars, wproc, cfgFiles, wrappers, tasks, tempXml>>

\* the user retypes task_name_input
edit_task_name(text) ==
    /\ dlg.open
    /\ dlg' = [dlg EXCEPT !.task_name_input = text]
    /\ last' = NoOp
    /\ UNCHANGED <<execVars, wproc, cfgFiles, wrappers, tasks, tempXml>>

add_trigger(form) ==
    /\ dlg.open
    /\ LET trigger == get_current_form_trigger(form) IN
       IF ~trigger.some
       THEN /\ last' = [op |-> "add_rejected"]
            /\ UNCHANGED dlg
       ELSE /\ IF dlg.editing_trigger_index # 0
               THEN dlg' = [dlg EXCEPT !.triggers[dlg.editing_trigger_index] = trigger.val,
                                       !.editing_trigger_index = 0,
                                       !.row = 0]
               ELSE /\ Len(dlg.triggers) < MaxTriggers
                    /\ dlg' = [dlg EXCEPT !.triggers = Append(@, trigger.val), !.row = 0]
            /\ last' = NoOp
    /\ UNCHANGED <<execVars, wproc, cfgFiles, wrappers, tasks, tempXml>>

delete_trigger(reply) ==
    /\ dlg.open
    /\ dlg.row \in 1..Len(dlg.triggers)
    /\ IF reply = "Yes"
       THEN dlg' = [dlg EXCEPT !.triggers = RemoveAt(@, dlg.row),
                               !.editing_trigger_index = 0,
                               !.row = 0]
       ELSE UNCHANGED dlg
    /\ last' = NoOp
    /\ UNCHANGED <<execVars, wproc, cfgFiles, wrappers, tasks, tempXml>>

\* delete_all_btn is visible only when the dialog was opened on an existing config
delete_all_triggers(reply) ==
    /\ dlg.open
    /\ dlg.has_existing
    /\ IF reply = "Yes"
       THEN configure_schedule_accepted(dlg.script_name, [delete_all |-> TRUE])
       ELSE /\ last' = NoOp
            /\ UNCHANGED <<dlg, cfgFiles>>
    /\ UNCHANGED <<execVars, wproc, wrappers, tasks, tempXml>>

\* mutant of accept_schedule_config: the empty trigger list is not looked at
AcceptWithoutTriggerCheck(task_name_input, triggers, reply) ==
    IF Strip(task_name_input) = <<>>
    THEN None
    ELSE Some([enabled |-> TRUE, task_name |-> Strip(task_name_input), triggers |-> triggers])

\* ScheduleDialog.accept: the schedule_config the dialog is accepted with, None when
\* accept returns without closing it
accept_schedule_config(task_name_input, triggers, reply) ==
    IF Strip(task_name_input) = <<>>
    THEN None
    ELSE IF triggers = <<>>
    THEN IF reply = "Yes" THEN Some([delete_all |-> TRUE]) ELSE None
    ELSE Some([enabled |-> TRUE, task_name |-> Strip(task_name_input), triggers |-> triggers])

\* the save button; reply is the answer to the "no triggers" question when it is asked
accept(reply) ==
    /\ dlg.open
    /\ LET r == accept_schedule_config(dlg.task_name_input, dlg.triggers, reply) IN
       IF r.some
       THEN configure_schedule_accepted(dlg.script_name, r.val)
       ELSE /\ last' = [op |-> "accept_refused", asked |-> Strip(dlg.task_name_input) # <<>>]
            /\ UNCHANGED <<dlg, cfgFiles>>
    /\ UNCHANGED <<execVars, wproc, wrappers, tasks, tempXml>>

\* the cancel button
reject ==
    /\ dlg.open
    /\ dlg' = NoDialog
    /\ last' = NoOp
    /\ UNCHANGED <<execVars, wproc, cfgFiles, wrappers, tasks, tempXml>>

Replies == {"Yes", "No"}

\* the dialog's handlers other than the task name edit, on the given form contents
DialogStep(forms) ==
    \/ configure_schedule
    \/ \E i \in 1..MaxTriggers : on_trigger_selected(i)
    \/ \E form \in forms : add_trigger(form)
    \/ \E reply \in Replies : delete_trigger(reply)
    \/ \E reply \in Replies : delete_all_triggers(reply)
    \/ \E reply \in Replies : accept(reply)
    \/ reject

(***************************************************************************)
(* The schedule dialog and its store: the user picks one of the scheduled  *)
(* scripts, opens the dialog and edits its trigger list.                   *)
(***************************************************************************)
StoreNext ==
    \/ on_category_selected
    \/ \E s \in Scheduled : on_script_selected(s)
    \/ DialogStep(Forms)
    \/ \E text \in TypedNames : edit_task_name(text)

StoreSpec == ExecInit /\ [][StoreNext]_vars

(***************************************************************************)
(* WindowsTaskScheduler.                                                   *)
(***************************************************************************)
\* WindowsTaskScheduler.task_folder
task_folder == <<"\\SYS-Toolset\\">>

\* the python_exe and working_dir arguments of create_task
PythonExe == <<"pythonw">>

WorkingDir == <<"C:", "\\", "toolset">>

\* the script_path argument for a script name
ScriptPath(script_name) == WorkingDir \o <<"\\", "scripts", "\\">> \o script_name

\* datetime.now().strftime('%Y-%m-%d') at the time of a call
Dates == {<<"2025", "-", "06", "-", "01">>, <<"2025", "-", "06", "-", "02">>}

\* str.lower() of a day name
Lower(day) ==
    CASE day = "Lunedì" -> "lunedì"
      [] day = "Martedì" -> "martedì"
      [] day = "Mercoledì" -> "mercoledì"
      [] day = "Giovedì" -> "giovedì"
      [] day = "Venerdì" -> "venerdì"
      [] day = "Sabato" -> "sabato"
      [] day = "Domenica" -> "domenica"
      [] OTHER -> day

\* day_mapping of _generate_trigger_xml
day_mapping ==
    [mon |-> "Monday", tue |-> "Tuesday", wed |-> "Wednesday", thu |-> "Thursday",
     fri |-> "Friday", sat |-> "Saturday", sun |-> "Sunday"]

\* a sequence of one-character-sequence pieces of the given length
IsFields(pieces, n) == Len(pieces) = n /\ \A i \in 1..n : Len(pieces[i]) = 1

\* datetime.strptime(datetime_str, '%d/%m/%Y %H:%M')
Strptime(datetime_str) ==
    LET halves == Split(datetime_str, " ")
        date == Split(halves[1], "/")
        time == Split(halves[2], ":")
    IN IF Len(halves) = 2 /\ IsFields(date, 3) /\ IsFields(time, 2)
       THEN [ok |-> TRUE, y |-> date[3][1], mo |-> date[2][1], d |-> date[1][1],
             h |-> time[1][1], mi |-> time[2][1]]
       ELSE [ok |-> FALSE]

\* datetime.fromisoformat(datetime_str) for the "yyyy-MM-ddTHH:mm" form
FromIsoFormat(datetime_str) ==
    LET halves == Split(datetime_str, "T")
        date == Split(halves[1], "-")
        time == Split(halves[2], ":")
    IN IF Len(halves) = 2 /\ IsFields(date, 3) /\ IsFields(time, 2)
       THEN [ok |-> TRUE, y |-> date[1][1], mo |-> date[2][1], d |-> date[3][1],
             h |-> time[1][1], mi |-> time[2][1]]
       ELSE [ok |-> FALSE]

\* exec_time.strftime('%Y-%m-%dT%H:%M:%S')
Strftime(t) == <<t.y, "-", t.mo, "-", t.d, "T", t.h, ":", t.mi, ":", "00">>

Raised == [raised |-> TRUE]

Returned(v) == [raised |-> FALSE, val |-> v]

\* _generate_trigger_xml: the trigger block, or the exception that leaves it
_generate_trigger_xml(trigger_config, today) ==
    LET trigger_type == Get(trigger_config, "type", "None") IN
    IF trigger_type = "once"
    THEN LET datetime_str == Get(trigger_config, "datetime", <<>>)
             exec_time == IF "/" \in Range(datetime_str)
                          THEN Strptime(datetime_str)
                          ELSE FromIsoFormat(datetime_str)
         IN IF exec_time.ok
            THEN Returned([tag |-> "TimeTrigger", StartBoundary |-> Strftime(exec_time)])
            ELSE Raised   \* the handler's fallback names timedelta, which is not imported
    ELSE IF trigger_type = "daily"
    THEN IF "time" \notin DOMAIN trigger_config \/ Len(Split(trigger_config["time"], ":")) # 2
         THEN Raised
         ELSE LET hm == Split(trigger_config["time"], ":") IN
              Returned([tag |-> "CalendarTrigger",
                        StartBoundary |-> today \o <<"T">> \o hm[1] \o <<":">> \o hm[2]
                                              \o <<":", "00">>,
                        ScheduleByDay |-> [DaysInterval |-> 1]])
    ELSE IF trigger_type = "weekly"
    THEN IF \/ "days" \notin DOMAIN trigger_config
            \/ "time" \notin DOMAIN trigger_config
            \/ Len(Split(trigger_config["time"], ":")) # 2
         THEN Raised
         ELSE LET hm == Split(trigger_config["time"], ":")
                  mapped == SelectSeq(trigger_config["days"],
                                      LAMBDA day : Lower(day) \in DOMAIN day_mapping)
              IN Returned([tag |-> "CalendarTrigger",
                           StartBoundary |-> today \o <<"T">> \o hm[1] \o <<":">> \o hm[2]
                                                 \o <<":", "00">>,
                           ScheduleByWeek |->
                               [DaysOfWeek |-> [i \in 1..Len(mapped) |->
                                                   day_mapping[Lower(mapped[i])]],
                                WeeksInterval |-> 1]])
    ELSE Returned([tag |-> ""])

\* open(xml_file, 'w'): schedules/temp/ exists, a directory named inside task_name does not
XmlWritable(task_name) == "/" \notin Range(task_name) /\ "\\" \notin Range(task_name)

\* _create_task_xml: the task definition written to schedules/temp/<task_name>.xml
_create_task_xml(task_name, script_name, wrapper_script, trigger_config, python_exe, working_dir, today) ==
    LET trigger == _generate_trigger_xml(trigger_config, today) IN
    IF trigger.raised \/ ~XmlWritable(task_name)
    THEN Raised
    ELSE Returned([Description |-> script_name,
                   Triggers |-> <<trigger.val>>,
                   Command |-> python_exe,
                   Arguments |-> wrapper_script,
                   WorkingDirectory |-> working_dir])

\* the wrapper_content f-string: its fixed text and the values interpolated into it
WrapperContent(script_name, script_path, working_dir) ==
    <<"Script: ">> \o script_name
    \o <<"script_path = ">> \o script_path
    \o <<"working_dir = ">> \o working_dir
    \o <<"log_file = scheduled_">> \o SafeName(script_name)
    \o <<"=== Esecuzione Schedulata: ">> \o script_name

\* mutant of WriteWrapper: the wrapper is opened for appending
WriteWrapperAppend(old, text) == [exists |-> TRUE, text |-> old.text \o text]

\* open(wrapper_path, 'w') followed by the write
WriteWrapper(old, text) == [exists |-> TRUE, text |-> text]

\* _create_wrapper_script: the wrapper files after the call
_create_wrapper_script(files, script_name, script_path, working_dir) ==
    [files EXCEPT ![WrapperKey(script_name)] =
        WriteWrapper(@, WrapperContent(script_name, script_path, working_dir))]

\* trigger_config.copy() with the 'data' dict popped and merged in
Normalize(trigger_config) ==
    IF "data" \in DOMAIN trigger_config
    THEN [k \in (DOMAIN trigger_config \ {"data"}) \cup DOMAIN trigger_config["data"] |->
             IF k \in DOMAIN trigger_config["data"]
             THEN trigger_config["data"][k]
             ELSE trigger_config[k]]
    ELSE trigger_config

\* schtasks /Create /TN <name> /XML <file> /F: the registration replaces one of that name
SchtasksCreate(registered, name, xml) ==
    {t \in registered : t.name # name} \cup {[name |-> name, xml |-> xml]}

\* what subprocess.run(cmd, ..., creationflags=CREATE_NO_WINDOW) can do: return with exit
\* code 0, return with another exit code, or raise; off Windows creationflags makes it raise
SchtasksOutcomes == IF os_name = "nt" THEN {"ok", "error", "raise"} ELSE {"raise"}

\* mutant of TargetCheck: the existence of the target is not looked at
TargetCheckSkipped(script_exists) == TRUE

\* line 80, script_path.exists(): the validation create_task starts with
TargetCheck(script_exists) == script_exists

create_task(script_name, script_exists, trigger_config, today, run) ==
    LET task_name == TaskName(script_name)
        script_path == ScriptPath(script_name)
        normalized_trigger == Normalize(trigger_config)
        xml == _create_task_xml(task_name, script_name, WrapperKey(script_name),
                                normalized_trigger, PythonExe, WorkingDir, today)
        args == [script_name |-> script_name, trigger_config |-> trigger_config]
        success == TargetCheck(script_exists) /\ ~xml.raised /\ run = "ok"
    IN
    /\ run \in SchtasksOutcomes
    /\ IF ~TargetCheck(script_exists)
       THEN UNCHANGED <<wrappers, tasks, tempXml>>
       ELSE /\ wrappers' = _create_wrapper_script(wrappers, script_name, script_path,
                                                  WorkingDir)
            /\ IF xml.raised
               THEN UNCHANGED <<tasks, tempXml>>
               ELSE IF run = "raise"
               THEN /\ tempXml' = tempXml \cup {task_name}
                    /\ UNCHANGED tasks
               ELSE /\ tempXml' = tempXml \ {task_name}
                    /\ tasks' = IF run = "ok"
                                THEN SchtasksCreate(tasks, task_folder \o task_name, xml.val)
                                ELSE tasks
    /\ last' = [op |-> "create_task", args |-> args, success |-> success,
                again |-> /\ last.op = "create_task"
                          /\ last.args = args
                          /\ last.success,
                script_exists |-> script_exists,
                invoked |-> TargetCheck(script_exists) /\ ~xml.raised,
                wrappersBefore |-> wrappers,
                tasksBefore |-> tasks,
                tempBefore |-> tempXml]
    /\ UNCHANGED <<execVars, wproc, dlg, cfgFiles>>

(***************************************************************************)
(* delete_task and task_exists.                                            *)
(***************************************************************************)
\* what schtasks prints on stderr when the task it is asked for is not there, in the
\* display language of the host (word by word): English, Italian, German
NotFoundMessages ==
    { <<"ERROR:", "The", "system", "cannot", "find", "the", "file", "specified.">>,
      <<"ERRORE:", "Impossibile", "trovare", "il", "file", "specificato.">>,
      <<"FEHLER:", "Das", "System", "kann", "die", "angegebene", "Datei", "nicht",
        "finden.">> }

\* str.lower() of a word of such a message
LowerWord(w) ==
    CASE w = "ERROR:" -> "error:"
      [] w = "The" -> "the"
      [] w = "ERRORE:" -> "errore:"
      [] w = "Impossibile" -> "impossibile"
      [] w = "FEHLER:" -> "fehler:"
      [] w = "Das" -> "das"
      [] w = "System" -> "system"
      [] w = "Datei" -> "datei"
      [] OTHER -> w

\* result.stderr.lower()
LowerText(text) == [i \in 1..Len(text) |-> LowerWord(text[i])]

\* needle in text
Contains(text, needle) ==
    \E i \in 1..(Len(text) - Len(needle) + 1) : SubSeq(text, i, i + Len(needle) - 1) = needle

\* what subprocess.run(['schtasks', '/Delete', '/TN', name, '/F'], ...) can do: off
\* Windows creationflags makes it raise; on Windows it deletes the task and returns 0, or
\* returns 1 with the not-found message when no task has that name
SchtasksDeleteOutcomes(registered, name) ==
    IF os_name # "nt"
    THEN {[raised |-> TRUE]}
    ELSE IF \E t \in registered : t.name = name
    THEN {[raised |-> FALSE, returncode |-> 0, stderr |-> <<>>]}
    ELSE {[raised |-> FALSE, returncode |-> 1, stderr |-> m] : m \in NotFoundMessages}

\* schtasks /Delete: the registrations left
SchtasksDelete(registered, name) == {t \in registered : t.name # name}

\* _delete_wrapper_script: wrapper_path.unlink(missing_ok=True)
_delete_wrapper_script(files, script_name) ==
    [files EXCEPT ![WrapperKey(script_name)] = NoFile]

\* delete_task: the value it returns for what subprocess.run did
DeleteTaskResult(run) ==
    IF run.raised THEN FALSE
    ELSE IF run.returncode = 0 THEN TRUE
    ELSE \/ Contains(LowerText(run.stderr), <<"cannot", "find", "the", "file">>)
         \/ Contains(LowerText(run.stderr), <<"impossibile", "trovare">>)

\* task_exists: schtasks /Query returns 0; an exception (off Windows) gives False
task_exists(script_name) ==
    /\ os_name = "nt"
    /\ \E t \in tasks : t.name = task_folder \o TaskName(script_name)

delete_task(script_name, run) ==
    LET name == task_folder \o TaskName(script_name) IN
    /\ run \in SchtasksDeleteOutcomes(tasks, name)
    /\ IF ~run.raised /\ run.returncode = 0
       THEN /\ tasks' = SchtasksDelete(tasks, name)
            /\ wrappers' = _delete_wrapper_script(wrappers, script_name)
       ELSE UNCHANGED <<tasks, wrappers>>
    /\ last' = [op |-> "delete_task", script_name |-> script_name,
                result |-> DeleteTaskResult(run),
                existed |-> \E t \in tasks : t.name = name,
                afterCreate |-> /\ last.op = "create_task"
                                /\ last.success
                                /\ last.args.script_name = script_name]
    /\ UNCHANGED <<execVars, wproc, dlg, cfgFiles, tempXml>>

(***************************************************************************)
(* The generated wrapper: main() of schedules/wrappers/wrapper_<name>.py,  *)
(* run by the OS scheduler in a process of its own.                        *)
(***************************************************************************)
\* suffixes of the script path written into a wrapper
WrapperSuffixes == DiskExts \cup {".cmd"}

\* main(): the command chosen from script_path.suffix.lower()
WrapperCmd(suffix) ==
    IF suffix = ".ps1" THEN "powershell"
    ELSE IF suffix = ".py" THEN "sys.executable"
    ELSE IF suffix \in {".bat", ".cmd"} THEN "cmd /c"
    ELSE "direct"

\* classes deriving from Exception among those main() meets; SystemExit does not
ExceptionClasses ==
    {"TimeoutExpired", "FileNotFoundError", "PermissionError", "ValueError", "UnicodeDecodeError"}

\* mutant of HandlerFor: the second clause is a bare except
HandlerForBare(exc) == IF exc = "TimeoutExpired" THEN "timeout" ELSE "except"

\* the except clause of main() that takes an exception raised in its try block
HandlerFor(exc) ==
    IF exc = "TimeoutExpired" THEN "timeout"
    ELSE IF exc \in ExceptionClasses THEN "except"
    ELSE "propagate"

\* the interpreter ends on an exception nothing handled: SystemExit(code) gives code,
\* any other exception gives 1 after the traceback
Exited(w, exc, code) ==
    [w EXCEPT !.pc = "exited", !.status = IF exc = "SystemExit" THEN code ELSE 1]

\* exc raised inside the try block of main(); code is the argument of sys.exit;
\* wproc.exc keeps the failure, which sys.exit is not
RaiseInTry(w, exc, code) ==
    IF HandlerFor(exc) = "propagate"
    THEN Exited(w, exc, code)
    ELSE [w EXCEPT !.pc = HandlerFor(exc), !.exc = IF exc = "SystemExit" THEN @ ELSE exc]

\* what subprocess.run(cmd, timeout=3600, creationflags=CREATE_NO_WINDOW) does: the child
\* completes with an exit status, the hour passes, the launch fails or the captured
\* output does not decode; off Windows a non-zero creationflags raises ValueError
WrapperRunOutcomes ==
    IF os_name = "nt"
    THEN {[raised |-> "None", returncode |-> rc] : rc \in 0..MaxExit}
         \cup {[raised |-> e, returncode |-> 0] :
                  e \in {"TimeoutExpired", "FileNotFoundError", "UnicodeDecodeError"}}
    ELSE {[raised |-> "ValueError", returncode |-> 0]}

\* the scheduler (or a user) starts the wrapper of a script with the given suffix
WrapperStart(suffix) ==
    /\ wproc.pc \in {"idle", "exited"}
    /\ wproc' = [NoWrapperRun EXCEPT !.pc = "mkdir", !.suffix = suffix,
                                     !.cmd = WrapperCmd(suffix)]
    /\ UNCHANGED <<execVars, dlg, cfgFiles, wrappers, tasks, tempXml, last>>

\* logs_dir.mkdir(exist_ok=True), before the try block
WrapperMkdir(ok) ==
    /\ wproc.pc = "mkdir"
    /\ wproc' = IF ok
                THEN [wproc EXCEPT !.pc = "header"]
                ELSE Exited([wproc EXCEPT !.exc = "FileNotFoundError"], "FileNotFoundError", 1)
    /\ UNCHANGED <<execVars, dlg, cfgFiles, wrappers, tasks, tempXml, last>>

\* open(log_file, 'w') and the header lines
WrapperHeader(ok) ==
    /\ wproc.pc = "header"
    /\ wproc' = IF ok
                THEN [wproc EXCEPT !.pc = "run"]
                ELSE RaiseInTry(wproc, "PermissionError", 1)
    /\ UNCHANGED <<execVars, dlg, cfgFiles, wrappers, tasks, tempXml, last>>

\* subprocess.run
WrapperRun ==
    /\ wproc.pc = "run"
    /\ \E outcome \in WrapperRunOutcomes :
          wproc' = IF outcome.raised = "None"
                   THEN [wproc EXCEPT !.pc = "log", !.result = outcome.returncode]
                   ELSE RaiseInTry(wproc, outcome.raised, 1)
    /\ UNCHANGED <<execVars, dlg, cfgFiles, wrappers, tasks, tempXml, last>>

\* open(log_file, 'a'), the output lines, then sys.exit(result.returncode)
WrapperLog(ok) ==
    /\ wproc.pc = "log"
    /\ wproc' = IF ok
                THEN RaiseInTry(wproc, "SystemExit", wproc.result)
                ELSE RaiseInTry(wproc, "PermissionError", 1)
    /\ UNCHANGED <<execVars, dlg, cfgFiles, wrappers, tasks, tempXml, last>>

\* the two except clauses: open(log_file, 'a'), one line, then sys.exit(1); an exception
\* raised inside a clause is handled by nothing
WrapperHandler(ok) ==
    /\ wproc.pc \in {"timeout", "except"}
    /\ wproc' = IF ok
                THEN Exited(wproc, "SystemExit", 1)
                ELSE Exited(wproc, "PermissionError", 1)
    /\ UNCHANGED <<execVars, dlg, cfgFiles, wrappers, tasks, tempXml, last>>

WrapperStep ==
    \/ \E suffix \in WrapperSuffixes : WrapperStart(suffix)
    \/ \E ok \in BOOLEAN : WrapperMkdir(ok)
    \/ \E ok \in BOOLEAN : WrapperHeader(ok)
    \/ WrapperRun
    \/ \E ok \in BOOLEAN : WrapperLog(ok)
    \/ \E ok \in BOOLEAN : WrapperHandler(ok)

WrapperSpec == ExecInit /\ [][WrapperStep]_vars

(***************************************************************************)
(* Registration of what the dialog persisted.  create_task has no caller   *)
(* in the sources; it is driven here for the selected script with a        *)
(* trigger of that script's persisted configuration, the dialog closed.    *)
(***************************************************************************)
PersistedTriggers(script_name) ==
    LET config == load_schedule_config(cfgFiles, script_name) IN
    IF config.some THEN Range(Get(config.val, "triggers", <<>>)) ELSE {}

Register ==
    /\ ~dlg.open
    /\ current_script # NoScript
    /\ \E trigger_config \in PersistedTriggers(current_script.name),
          script_exists \in BOOLEAN, today \in Dates, run \in {"ok", "error", "raise"} :
            create_task(current_script.name, script_exists, trigger_config, today, run)

\* delete_task for the selected script
Unregister ==
    /\ ~dlg.open
    /\ current_script # NoScript
    /\ \E run \in SchtasksDeleteOutcomes(tasks, task_folder \o TaskName(current_script.name)) :
          delete_task(current_script.name, run)

\* the forms submitted in the registration scenario: create_task does not read the
\* task name the dialog stores, and one calendar trigger kind is enough to involve the clock
RegForms == {form \in Forms : form.radio \in {"once", "weekly"}}

RegNext ==
    \/ on_category_selected
    \/ \E s \in Scheduled : on_script_selected(s)
    \/ DialogStep(RegForms)
    \/ Register
    \/ Unregister

RegSpec == ExecInit /\ [][RegNext]_vars

(***************************************************************************)
(* create_task called with trigger configurations of every kind: those the *)
(* dialog builds and the store hands back, and once triggers written by    *)
(* hand into a schedule file (ISO date, a date that is none, no date).     *)
(***************************************************************************)
\* the largest repeat interval entered in the daily form
MaxInterval == 2

\* the forms of the dialog, the daily one with every interval
TriggerForms ==
    {form \in Forms : form.radio # "daily"}
    \cup [radio : {"daily"}, datetime : FormDateTimes, time : FormTimes,
          interval : 1..MaxInterval, checked : {{}}]

\* the trigger load_schedule_config returns after save_schedule_config stored it
PersistedTrigger(trigger) ==
    LET name == <<"c">>
        config == [enabled |-> TRUE, task_name |-> TaskName(name), triggers |-> <<trigger>>]
        files == save_schedule_config([k \in ConfigKeys |-> NoFile], name, config)
    IN load_schedule_config(files, name).val["triggers"][1]

\* once triggers of a schedule file edited by hand
HandWrittenTriggers ==
    { [type |-> "once", data |-> [datetime |-> <<"2025", "-", "06", "-", "01", "T", "02", ":", "00">>]],
      [type |-> "once", data |-> [datetime |-> <<"domani">>]],
      [type |-> "once", data |-> [datetime |-> <<"domani", "/", "sera">>]],
      [type |-> "once"] }

DirectTriggers ==
    {PersistedTrigger(get_current_form_trigger(form).val) :
        form \in {f \in TriggerForms : get_current_form_trigger(f).some}}
    \cup HandWrittenTriggers

\* create_task for the script "a b" with one of these triggers
RegisterDirect ==
    \E trigger_config \in DirectTriggers, script_exists \in BOOLEAN, today \in Dates,
       run \in {"ok", "error", "raise"} :
          create_task(<<"a", " ", "b">>, script_exists, trigger_config, today, run)

TriggerSpec == ExecInit /\ [][RegisterDirect]_vars

(***************************************************************************)
(* The whole program.                                                      *)
(***************************************************************************)
Init == ExecInit

Next ==
    \/ UiNext
    \/ ChildWriteOut
    \/ ChildWriteErr
    \/ ChildBlocks
    \/ LogBreaks
    \/ DialogStep(Forms)
    \/ \E text \in TypedNames : edit_task_name(text)
    \/ Register
    \/ Unregister
    \/ WrapperStep
    \/ RegisterDirect

Spec == Init /\ [][Next]_vars

(***************************************************************************)
(* Claims about the execution engine.                                      *)
(***************************************************************************)
\* C1: every invocation of run() emits exactly one finished signal, and no output
\* or error signal of the invocation follows it.
C1_SingleTerminalEvent ==
    /\ Count(emitted, "finished") <= 1
    /\ pc = "done" => Count(emitted, "finished") = 1
    /\ \A i \in 1..Len(emitted) : emitted[i].kind = "finished" => i = Len(emitted)

\* C2: for a script path with no interpreter in the dispatch table, run() emits
\* exactly one error report followed by the terminal event and spawns no child
\* (self.process is never set).
C2_UnsupportedExtension ==
    Dispatch(thr.script_ext) = "unsupported" =>
        /\ thr.process = "None"
        /\ hist.spawned = 0
        /\ pc = "done" =>
              emitted = <<Ev("error", "Tipo di script non supportato", <<>>),
                          Ev("finished", "", <<>>)>>

\* C3: a run in which the stop request was observed is never reported to the
\* user by on_execution_finished as completed successfully.
C3_CancelledNotReportedCompleted ==
    \A r \in hist.cancelledRuns : <<r, "[OK] Esecuzione completata">> \notin hist.reported

\* C4: once the stop request is observed, terminate() is requested first, kill()
\* is used only after the grace period has expired, the child is no longer alive
\* when the grace period handling is over, and it is not alive when the terminal
\* event is emitted.
C4_StopTerminatesChild ==
    hist.stopObserved =>
        /\ child.termSignalled
        /\ child.killed => hist.waitTimedOut
        /\ pc \in {"notice", "communicate", "finally", "done"} => ~child.alive
        /\ Count(emitted, "finished") > 0 => ~child.alive

\* C4 witness: a cancelled run that needed the force-kill has emitted its terminal event.
C4_Witness ==
    /\ pc = "done"
    /\ hist.stopObserved
    /\ hist.waitTimedOut
    /\ child.killed
    /\ Count(emitted, "finished") > 0

\* C5: once stop() has been called while the child runs, the run eventually emits
\* its terminal event, whatever the child does (also when it stays silent and
\* never exits on its own).
C5_StopEventuallyTerminates ==
    (thr.stop_requested /\ child.alive) ~> (pc = "done")

\* C6: MainWindow never starts a second ScriptExecutorThread while the previous
\* one has not yet delivered its terminal event.
C6_AtMostOneExecution == ~hist.overlap

C8_NoEmptyTriggerListPersisted ==
    /\ \A k \in ConfigKeys :
          cfgFiles[k].exists =>
              /\ JsonLoad(cfgFiles[k].text).ok
              /\ Get(JsonLoad(cfgFiles[k].text).val, "triggers", <<>>) # <<>>
    /\ last.op = "delete" => ~cfgFiles[ConfigKey(last.name)].exists
    /\ last.op = "accept_refused" => dlg.open

\* C8 witness: the dialog was opened on a stored config, its triggers were all
\* removed, save was pressed and the question answered No: the stored config stays.
C8_Witness ==
    /\ last.op = "accept_refused"
    /\ last.asked
    /\ dlg.has_existing
    /\ dlg.triggers = <<>>
    /\ cfgFiles[ConfigKey(dlg.script_name)].exists

(***************************************************************************)
(* Claims about registration.                                              *)
(***************************************************************************)
WeeklyWithoutDays(trigger) == trigger.type = "weekly" /\ trigger.data.days = <<>>

\* C9: a weekly trigger with no weekday selected is refused by the form validation:
\* none is in the dialog's trigger list, none is in a stored config, and none is
\* handed to create_task.
C9_WeeklyNeverWithoutDays ==
    /\ \A i \in 1..Len(dlg.triggers) : ~WeeklyWithoutDays(dlg.triggers[i])
    /\ \A k \in ConfigKeys :
          cfgFiles[k].exists =>
              LET triggers == Get(JsonLoad(cfgFiles[k].text).val, "triggers", <<>>) IN
              \A i \in 1..Len(triggers) : ~WeeklyWithoutDays(triggers[i])
    /\ last.op = "create_task" => ~WeeklyWithoutDays(last.args.trigger_config)

\* C9 witness: a weekly trigger has been registered, and a weekly form with no day
\* checked has just been refused by add_trigger.
C9_Witness ==
    /\ last.op = "add_rejected"
    /\ \E t \in tasks : "ScheduleByWeek" \in DOMAIN t.xml.Triggers[1]

\* C10: when create_task has succeeded and is called again with the same arguments,
\* whatever the second call returns there is exactly one native task under the
\* derived name, the set of registered names and the set of wrapper files are what
\* the first call left, and the wrapper file has the content the first call wrote.
C10_CreateTaskIdempotent ==
    (last.op = "create_task" /\ last.again) =>
        LET name == task_folder \o TaskName(last.args.script_name)
            key == WrapperKey(last.args.script_name)
        IN /\ Cardinality({t \in tasks : t.name = name}) = 1
           /\ {t.name : t \in tasks} = {t.name : t \in last.tasksBefore}
           /\ {k \in WrapperKeys : wrappers[k].exists}
                 = {k \in WrapperKeys : last.wrappersBefore[k].exists}
           /\ wrappers[key].exists
           /\ wrappers[key].text = last.wrappersBefore[key].text

\* C10 witness: the second of two successful create_task calls with the same
\* arguments has returned.
C10_Witness ==
    /\ last.op = "create_task"
    /\ last.again
    /\ last.success

\* C11: delete_task returns True for a script that has no registered native task, and
\* delete_task right after a successful create_task for the same script name returns
\* True and leaves task_exists(name) false.
C11_DeleteTaskSucceeds ==
    last.op = "delete_task" =>
        /\ ~last.existed => last.result
        /\ last.afterCreate => (last.result /\ ~task_exists(last.script_name))

\* the persisted trigger list of a script, in order (empty when there is no config)
PersistedTriggerList(script_name) ==
    LET config == load_schedule_config(cfgFiles, script_name) IN
    IF config.some THEN Get(config.val, "triggers", <<>>) ELSE <<>>

\* C12: after a script with N >= 1 persisted triggers has been registered successfully,
\* its native task definition contains exactly N trigger blocks.
C12_OneBlockPerTrigger ==
    (last.op = "create_task" /\ last.success) =>
        \A t \in tasks :
            t.name = task_folder \o TaskName(last.args.script_name) =>
                Len(t.xml.Triggers) = Len(PersistedTriggerList(last.args.script_name))

\* C13: the config file name, the wrapper file name and the native task name of a script
\* all derive from the same safe-name transform (space, '/' and '\' become '_'): the
\* names create_task used are TASK_PREFIX + safeName and wrapper_<safeName>.py, and the
\* config it was driven from is <safeName>.json.
C13_NamesShareSafeName ==
    last.op = "create_task" =>
        LET script_name == last.args.script_name
            safeName == SafeName(script_name)
        IN /\ TaskName(script_name) = TASK_PREFIX \o safeName
           /\ WrapperKey(script_name) = <<"wrapper_">> \o safeName \o <<".py">>
           /\ ConfigKey(script_name) = safeName \o <<".json">>

\* the three artefacts of a script's scheduling
ConfigPresent(script_name) == cfgFiles[ConfigKey(script_name)].exists

WrapperPresent(script_name) == wrappers[WrapperKey(script_name)].exists

TaskPresent(script_name) == \E t \in tasks : t.name = task_folder \o TaskName(script_name)

\* C14: after the dialog's save the script is Scheduled (config, wrapper and native task
\* all present), after its delete-all the script is Unscheduled (none of them present),
\* and no wrapper or native task exists for a script whose config does not exist.
C14_SchedulingLifecycle ==
    /\ last.op = "save" =>
           /\ ConfigPresent(last.name)
           /\ WrapperPresent(last.name)
           /\ TaskPresent(last.name)
    /\ last.op = "delete" =>
           /\ ~ConfigPresent(last.name)
           /\ ~WrapperPresent(last.name)
           /\ ~TaskPresent(last.name)
    /\ \A d \in Catalog :
           (WrapperPresent(d.name) \/ TaskPresent(d.name)) => ConfigPresent(d.name)

\* the events from position i on
EventsFrom(s, i) == SubSeq(s, i, Len(s))

\* C15: an exception raised while spawning or reading the child is caught inside run(),
\* reported as one error event which the terminal event follows; no exception escapes
\* run() and run() never ends without having emitted the terminal event.
C15_ExceptionsReported ==
    /\ pc \notin {"unhandled", "raised"}
    /\ pc = "done" => Count(emitted, "finished") >= 1
    /\ thr.e # "None" =>
          /\ pc \in {"except", "finally", "done"}
          /\ pc = "finally" =>
                /\ emitted # <<>>
                /\ emitted[Len(emitted)] = Ev("error", "Errore nell'esecuzione dello script", <<>>)
          /\ pc = "done" =>
                /\ Len(emitted) >= 2
                /\ EventsFrom(emitted, Len(emitted) - 1)
                      = <<Ev("error", "Errore nell'esecuzione dello script", <<>>),
                          Ev("finished", "", <<>>)>>

\* C15 witness: run() has returned after readline raised on a line the child wrote.
C15_Witness ==
    /\ pc = "done"
    /\ thr.e = "UnicodeDecodeError"
    /\ hist.spawned = 1
    /\ child.produced > 0

\* C16: the wrapper process exits with the child's exit status when the child completed
\* within the hour and nothing raised, and with status 1 when the child timed out or an
\* exception occurred while launching the child or writing the log.
C16_WrapperExitStatus ==
    wproc.pc = "exited" =>
        IF wproc.result # NoStatus /\ wproc.exc = "None"
        THEN wproc.status = wproc.result
        ELSE wproc.status = 1

\* C16 witness: a wrapper has exited with a child's status other than 0 and 1.
C16_Witness ==
    /\ wproc.pc = "exited"
    /\ wproc.exc = "None"
    /\ wproc.result = 2
    /\ wproc.status = 2

\* chunk c of the child is carried by a signal of the given kind emitted before any
\* terminal event
DeliveredBeforeFinished(c, kind) ==
    \E i \in 1..Len(emitted) :
        /\ emitted[i].kind = kind
        /\ emitted[i].tag = "child"
        /\ c \in Range(emitted[i].chunks)
        /\ \A j \in 1..i : emitted[j].kind # "finished"

\* C17: once the terminal event is emitted and the child has exited, every line the
\* child wrote has been delivered before the terminal event, stdout lines by output
\* signals and stderr lines by error signals: nothing the child produced is lost.
C17_NothingLost ==
    (Count(emitted, "finished") > 0 /\ ~child.alive) =>
        \A c \in 1..child.produced :
            DeliveredBeforeFinished(c, IF child.streams[c] = "stdout" THEN "output" ELSE "error")

\* C18: output is delivered in the order the child produced it: of any two chunks
\* carried by the emitted signals (stdout or stderr), the one produced first is carried
\* by the earlier signal, or earlier in the same signal.
C18_FifoAcrossStreams ==
    \A i, j \in 1..Len(emitted) :
        \A a \in 1..Len(emitted[i].chunks), b \in 1..Len(emitted[j].chunks) :
            emitted[i].chunks[a] < emitted[j].chunks[b] => (i < j \/ (i = j /\ a < b))

\* C19: on a cancelled run the interruption notice is emitted once the child has been
\* terminated and the terminal event follows it immediately: between the notice and the
\* terminal event no signal carrying output of the child is emitted.
C19_NoticeThenFinished ==
    \A i \in 1..Len(emitted) :
        emitted[i].tag = "[INTERRUZIONE]" =>
            /\ ~child.alive
            /\ i < Len(emitted) => emitted[i + 1].kind = "finished"

\* C20: when create_task has returned, whether it succeeded, the OS tool rejected the
\* definition or invoking the OS tool raised, no temporary XML file of that task is left
\* under schedules/temp.
C20_TempXmlRemoved ==
    last.op = "create_task" => TaskName(last.args.script_name) \notin tempXml

\* C21: when the target script file does not exist, create_task returns failure and has
\* no side effect: no wrapper file is created or overwritten, no temporary XML is
\* written and the OS scheduler is not invoked.
C21_MissingTargetNoEffect ==
    (last.op = "create_task" /\ ~last.script_exists) =>
        /\ ~last.success
        /\ ~last.invoked
        /\ wrappers = last.wrappersBefore
        /\ tasks = last.tasksBefore
        /\ tempXml = last.tempBefore

\* C21 witness: create_task has returned for a missing target while a wrapper and a
\* registration of an earlier call for that script exist.
C21_Witness ==
    /\ last.op = "create_task"
    /\ ~last.script_exists
    /\ WrapperPresent(last.args.script_name)
    /\ TaskPresent(last.args.script_name)

\* C22: whenever delete_task returns True, because the task was deleted or because the
\* OS reported it as not found, the wrapper file of that script does not exist afterwards.
C22_DeleteTaskRemovesWrapper ==
    (last.op = "delete_task" /\ last.result) => ~WrapperPresent(last.script_name)

\* the block the registered definition of script "a b" holds for its trigger
RegisteredTrigger == (CHOOSE t \in tasks : t.name = task_folder \o TaskName(<<"a", " ", "b">>)).xml.Triggers[1]

\* C23: a daily trigger with time t and repeat interval n >= 1, as the dialog produces
\* it, is registered as a calendar trigger that starts at t and whose DaysInterval is n.
C23_DailyInterval ==
    (/\ last.op = "create_task"
     /\ last.success
     /\ last.args.trigger_config.type = "daily") =>
        LET data == last.args.trigger_config.data
            hm == Split(data.time, ":")
        IN /\ RegisteredTrigger.tag = "CalendarTrigger"
           /\ SubSeq(RegisteredTrigger.StartBoundary, 6, 11) = <<"T">> \o hm[1] \o <<":">> \o hm[2] \o <<":", "00">>
           /\ RegisteredTrigger.ScheduleByDay.DaysInterval = data.interval

\* the weekday each checkbox of the dialog stands for
Weekday(day) ==
    CASE day = "Lunedì" -> "Monday"
      [] day = "Martedì" -> "Tuesday"
      [] day = "Mercoledì" -> "Wednesday"
      [] day = "Giovedì" -> "Thursday"
      [] day = "Venerdì" -> "Friday"
      [] day = "Sabato" -> "Saturday"
      [] day = "Domenica" -> "Sunday"

\* C24: a weekly trigger as the dialog produces and the store persists it is translated,
\* in the definition create_task hands to the OS scheduler, into a calendar trigger
\* restricted to exactly its weekdays: every selected weekday is in DaysOfWeek and no
\* other weekday is.
C24_WeeklyDays ==
    (/\ last.op = "create_task"
     /\ last.invoked
     /\ last.args.trigger_config.type = "weekly") =>
        \A today \in Dates :
            LET block == _generate_trigger_xml(Normalize(last.args.trigger_config), today).val IN
            /\ block.tag = "CalendarTrigger"
            /\ Range(block.ScheduleByWeek.DaysOfWeek)
                  = {Weekday(day) : day \in Range(last.args.trigger_config.data.days)}

\* a once trigger whose date string neither strptime nor fromisoformat accepts
UnparsableOnce(trigger_config) ==
    LET datetime_str == Get(Normalize(trigger_config), "datetime", <<>>) IN
    /\ Get(trigger_config, "type", "None") = "once"
    /\ ~(IF "/" \in Range(datetime_str)
         THEN Strptime(datetime_str)
         ELSE FromIsoFormat(datetime_str)).ok

\* C25: for a once trigger whose date string cannot be parsed, create_task does not fail
\* because of the date: with an existing target the translation falls back to a start
\* boundary and create_task goes on to the OS scheduler call.
C25_UnparsableDateFallsBack ==
    (/\ last.op = "create_task"
     /\ last.script_exists
     /\ UnparsableOnce(last.args.trigger_config)) => last.invoked

(***************************************************************************)
(* Claims about the per-run log file.                                      *)
(***************************************************************************)
\* C26: a failure to write to the per-run log file is caught and reported once per
\* execution, however many writes fail, and does not abort the run: no exception
\* reaches run() because of it and a finished run has emitted its terminal event.
C26_LogFailureReportedOnce ==
    /\ logfile.reports <= 1
    /\ ~logfile.writable /\ thr.e # "None" => thr.e \in SpawnErrors \cup ReadErrors
    /\ ~logfile.writable /\ pc \in {"done", "raised"} => Count(emitted, "finished") >= 1

\* C29: each line the child produces is appended to the per-run log file exactly once,
\* in delivery order: no chunk is in the file twice, the chunks in the file are in the
\* order of the signals that carried them, and once the run is over and its signals
\* are handled every delivered chunk is in a log that stayed writable.
C29_LoggedExactlyOnce ==
    LET lines == logfile.lines IN
    /\ \A i, j \in 1..Len(lines) : lines[i] = lines[j] => i = j
    /\ \A i, j \in 1..Len(lines) : i < j =>
          \E p, q \in 1..Len(emitted) :
             \E a \in 1..Len(emitted[p].chunks), b \in 1..Len(emitted[q].chunks) :
                /\ emitted[p].chunks[a] = lines[i]
                /\ emitted[q].chunks[b] = lines[j]
                /\ p < q \/ (p = q /\ a < b)
    /\ (pc = "done" /\ sigq = <<>> /\ logfile.log_file_path /\ logfile.writable) =>
          \A p \in 1..Len(emitted) : Range(emitted[p].chunks) \subseteq Range(lines)

(***************************************************************************)
(* Further claims about the schedule store.                                *)
(***************************************************************************)
\* C27: distinct scripts have distinct schedule configs: a step that saves or deletes
\* the schedule of one script leaves what load_schedule_config returns for every
\* script of another name as it was.
C27_SchedulesIndependent ==
    [][\A d \in Catalog :
          (/\ cfgFiles' # cfgFiles
           /\ last'.op \in {"save", "delete"}
           /\ d.name # last'.name) =>
              load_schedule_config(cfgFiles', d.name) = load_schedule_config(cfgFiles, d.name)]_vars

(***************************************************************************)
(* Further claims about the execution engine.                              *)
(***************************************************************************)
\* C30: every script path execute_script resolves and hands to the thread is accepted
\* by run()'s dispatch on the extension: the thread's script has an interpreter and
\* no run ends with the unsupported-type error.
C30_ResolvedIsDispatched ==
    /\ thr.script_ext # "None" => Dispatch(thr.script_ext) # "unsupported"
    /\ \A i \in 1..Len(emitted) : emitted[i].tag # "Tipo di script non supportato"

\* run() is inside stdout.readline() with nothing to read while the child is blocked
\* writing to stderr, which run() reads only after the loop
ReaderAndWriterBlocked ==
    /\ pc = "readline"
    /\ outPipe = <<>>
    /\ child.alive
    /\ child.pending = "stderr"

\* C28: every non-elevated run terminates when its child does: with a child that
\* writes finitely many chunks to stdout and stderr in any interleaving and then
\* exits, no state has run() blocked reading stdout while the child is blocked writing
\* to a full stderr pipe, and the run eventually emits the terminal event.
C28_RunTerminates ==
    /\ []~ReaderAndWriterBlocked
    /\ <>(Count(emitted, "finished") >= 1)

=============================================================================
